---------------------------- MODULE Spec2Model ----------------------------
(***************************************************************************)
(* The unified-diff parser of src/patch/parse.rs as a state machine.       *)
(*                                                                         *)
(* A text is a sequence of one-character strings, the input is the         *)
(* sequence of physical lines the line iterator yields (every line ends    *)
(* with its own "\n", only the last one may be unterminated), and the      *)
(* cursor `pos` counts the lines consumed so far.  Every loop iteration    *)
(* of the parser is one action.                                            *)
(***************************************************************************)
EXTENDS Naturals, Sequences, FiniteSets

VARIABLES
    input,               \* the physical lines of the input buffer
    pos,                 \* Parser.lines: number of lines already consumed
    pc,                  \* where parse() stands
    err,                 \* the message of the ParsePatchError returned, or ""
    filename1,           \* patch_header: header.0
    filename2,           \* patch_header: header.1
    hunks,               \* hunks(): the Vec<Hunk> built so far
    range1,              \* hunk(): old range of the hunk being parsed
    range2,              \* hunk(): new range of the hunk being parsed
    function_context,    \* hunk(): Option<&T> of the hunk being parsed
    lines,               \* hunk_lines(): Vec<Line>
    no_newline_context,  \* hunk_lines(): flag
    no_newline_delete,   \* hunk_lines(): flag
    no_newline_insert    \* hunk_lines(): flag

vars == <<input, pos, pc, err, filename1, filename2, hunks, range1, range2,
          function_context, lines, no_newline_context, no_newline_delete,
          no_newline_insert>>

---------------------------------------------------------------------------
(* Option and Result values *)

None == <<>>
Some(x) == <<x>>
IsSome(o) == o # <<>>
Unwrap(o) == o[1]

Ok(v) == [ok |-> TRUE, val |-> v, err |-> ""]
Err(e) == [ok |-> FALSE, val |-> <<>>, err |-> e]

---------------------------------------------------------------------------
(* Error messages of parse.rs *)

E_EOF == "unexpected EOF"
E_FILENAME == "unable to parse filename"
E_UNTERMINATED == "filename unterminated"
E_UNQUOTED == "invalid char in unquoted filename"
E_EXPECTED_ESCAPED == "expected escaped character"
E_INVALID_ESCAPED == "invalid escaped character"
E_INVALID_UNESCAPED == "invalid unescaped character"
E_ORDER == "Hunks not in order or overlap"
E_COUNT == "Hunk header does not match hunk"
E_HUNK_HEADER == "unable to parse hunk header"
E_HEADER_UNTERMINATED == "hunk header unterminated"
E_RANGE == "can't parse range"
E_END_OF_HUNK == "expected end of hunk"
E_NO_MORE_DELETED == "expected no more deleted lines"
E_NO_MORE_INSERTED == "expected no more inserted lines"
E_UNEXPECTED_MARKER == "unexpected 'No newline at end of file' line"
E_UNEXPECTED_LINE == "unexpected line in hunk body"
E_MISSING_NEWLINE == "missing newline"

---------------------------------------------------------------------------
(* Characters and literals *)

LF == "\n"
TAB == "\t"
CR == "\r"
NUL == "NUL"
QUOTE == "\""
BACKSLASH == "\\"
SPACE == " "

\* super::NO_NEWLINE_AT_EOF
NO_NEWLINE_AT_EOF ==
    <<BACKSLASH, " ", "N", "o", " ", "n", "e", "w", "l", "i", "n", "e", " ",
      "a", "t", " ", "e", "n", "d", " ", "o", "f", " ", "f", "i", "l", "e">>

\* super::ESCAPED_CHARS_BYTES
ESCAPED_CHARS_BYTES == {SPACE, TAB, LF, QUOTE, BACKSLASH, NUL, CR}

---------------------------------------------------------------------------
(* The Text capability (utils::Text) *)

\* Each operation binds its text once (t \in {s}) and then works on that value.

\* the one element of a singleton set
Only(S) == CHOOSE v \in S : TRUE

starts_with(s, p) == \E t \in {s} : Len(t) >= Len(p) /\ SubSeq(t, 1, Len(p)) = p

strip_prefix(s, p) ==
    Only({IF starts_with(t, p) THEN Some(SubSeq(t, Len(p) + 1, Len(t))) ELSE None
          : t \in {s}})

strip_suffix(s, p) ==
    Only({IF Len(t) >= Len(p) /\ SubSeq(t, Len(t) - Len(p) + 1, Len(t)) = p
          THEN Some(SubSeq(t, 1, Len(t) - Len(p)))
          ELSE None
          : t \in {s}})

\* the places where delimiter d occurs in s
Occurrences(s, d) ==
    UNION {{i \in 1..Len(t) : i + Len(d) - 1 <= Len(t) /\ SubSeq(t, i, i + Len(d) - 1) = d}
           : t \in {s}}

split_at_exclusive(s, d) ==
    Only({IF Occurrences(t, d) = {} THEN None
          ELSE Only({Some(<<SubSeq(t, 1, i - 1), SubSeq(t, i + Len(d), Len(t))>>)
                     : i \in {k \in Occurrences(t, d) : \A j \in Occurrences(t, d) : k <= j}})
          : t \in {s}})

Digits == {"0", "1", "2", "3", "4", "5", "6", "7", "8", "9"}

DigitValue(c) ==
    CASE c = "0" -> 0 [] c = "1" -> 1 [] c = "2" -> 2 [] c = "3" -> 3
      [] c = "4" -> 4 [] c = "5" -> 5 [] c = "6" -> 6 [] c = "7" -> 7
      [] c = "8" -> 8 [] c = "9" -> 9

RECURSIVE NumeralValue(_)
NumeralValue(s) ==
    IF s = <<>> THEN 0
    ELSE 10 * NumeralValue(SubSeq(s, 1, Len(s) - 1)) + DigitValue(s[Len(s)])

\* Text::parse::<usize>()
parse_usize(s) ==
    Only({IF t # <<>> /\ \A i \in 1..Len(t) : t[i] \in Digits
          THEN Some(NumeralValue(t))
          ELSE None
          : t \in {s}})

---------------------------------------------------------------------------
(* Filenames *)

is_quoted(s) ==
    IF IsSome(strip_prefix(s, <<QUOTE>>))
    THEN strip_suffix(Unwrap(strip_prefix(s, <<QUOTE>>)), <<QUOTE>>)
    ELSE None

unescaped_filename(filename) ==
    IF \E i \in 1..Len(filename) : filename[i] \in ESCAPED_CHARS_BYTES
    THEN Err(E_UNQUOTED)
    ELSE Ok(filename)

EscapeLetters == {"n", "t", "0", "r", QUOTE, BACKSLASH}

\* the byte the match arm of escaped_filename pushes for escape letter e after
\* the backslash c: the arm pushes c, the byte bound by the loop
EscapePush(c, e) == c

RECURSIVE EscapedLoop(_, _, _)
EscapedLoop(s, i, filename) ==
    IF i > Len(s) THEN Ok(filename)
    ELSE IF s[i] = BACKSLASH
         THEN IF i + 1 > Len(s) THEN Err(E_EXPECTED_ESCAPED)
              ELSE IF s[i + 1] \in EscapeLetters
                   THEN EscapedLoop(s, i + 2, Append(filename, EscapePush(s[i], s[i + 1])))
                   ELSE Err(E_INVALID_ESCAPED)
         ELSE IF s[i] \in ESCAPED_CHARS_BYTES THEN Err(E_INVALID_UNESCAPED)
              ELSE EscapedLoop(s, i + 1, Append(filename, s[i]))

escaped_filename(escaped) == EscapedLoop(escaped, 1, <<>>)

parse_filename(prefix, line) ==
    LET stripped == strip_prefix(line, prefix) IN
    IF ~IsSome(stripped) THEN Err(E_FILENAME)
    ELSE LET rest == Unwrap(stripped)
             byTab == split_at_exclusive(rest, <<TAB>>)
             byLf == split_at_exclusive(rest, <<LF>>)
         IN  IF ~IsSome(byTab) /\ ~IsSome(byLf) THEN Err(E_UNTERMINATED)
             ELSE LET filename == IF IsSome(byTab) THEN Unwrap(byTab)[1]
                                  ELSE Unwrap(byLf)[1]
                  IN  IF IsSome(is_quoted(filename))
                      THEN escaped_filename(Unwrap(is_quoted(filename)))
                      ELSE unescaped_filename(filename)

---------------------------------------------------------------------------
(* Hunk headers *)

HunkRange(start, len) == [start |-> start, len |-> len]

\* range() with a missing len read as 0
range_DefaultZero(s) ==
    LET parts == split_at_exclusive(s, <<",">>) IN
    IF IsSome(parts)
    THEN LET start == parse_usize(Unwrap(parts)[1])
             len == parse_usize(Unwrap(parts)[2])
         IN  IF ~IsSome(start) THEN Err(E_RANGE)
             ELSE IF ~IsSome(len) THEN Err(E_RANGE)
             ELSE Ok(HunkRange(Unwrap(start), Unwrap(len)))
    ELSE LET start == parse_usize(s)
         IN  IF ~IsSome(start) THEN Err(E_RANGE)
             ELSE Ok(HunkRange(Unwrap(start), 0))

\* the context kept whether or not a space leads it
HeaderContext_Always(after) ==
    IF IsSome(strip_prefix(after, <<SPACE>>)) THEN strip_prefix(after, <<SPACE>>)
    ELSE IF after \in {<<>>, <<LF>>} THEN None ELSE Some(after)

\* HunkRange::end()
RangeEnd(r) == r.start + r.len

range(s) ==
    LET parts == split_at_exclusive(s, <<",">>) IN
    IF IsSome(parts)
    THEN LET start == parse_usize(Unwrap(parts)[1])
             len == parse_usize(Unwrap(parts)[2])
         IN  IF ~IsSome(start) THEN Err(E_RANGE)
             ELSE IF ~IsSome(len) THEN Err(E_RANGE)
             ELSE Ok(HunkRange(Unwrap(start), Unwrap(len)))
    ELSE LET start == parse_usize(s)
         IN  IF ~IsSome(start) THEN Err(E_RANGE)
             ELSE Ok(HunkRange(Unwrap(start), 1))

\* the Option<&T> hunk_header keeps of the text after the " @@" terminator
HeaderContext(after) == strip_prefix(after, <<SPACE>>)

hunk_header(line) ==
    LET body == strip_prefix(line, <<"@", "@", SPACE>>) IN
    IF ~IsSome(body) THEN Err(E_HUNK_HEADER)
    ELSE LET halves == split_at_exclusive(Unwrap(body), <<SPACE, "@", "@">>) IN
    IF ~IsSome(halves) THEN Err(E_HEADER_UNTERMINATED)
    ELSE LET ranges == Unwrap(halves)[1]
             fc == HeaderContext(Unwrap(halves)[2])
             pair == split_at_exclusive(ranges, <<SPACE>>)
         IN
    IF ~IsSome(pair) THEN Err(E_HUNK_HEADER)
    ELSE LET t1 == strip_prefix(Unwrap(pair)[1], <<"-">>) IN
    IF ~IsSome(t1) THEN Err(E_HUNK_HEADER)
    ELSE LET r1 == range(Unwrap(t1)) IN
    IF ~r1.ok THEN Err(r1.err)
    ELSE LET t2 == strip_prefix(Unwrap(pair)[2], <<"+">>) IN
    IF ~IsSome(t2) THEN Err(E_HUNK_HEADER)
    ELSE LET r2 == range(Unwrap(t2)) IN
    IF ~r2.ok THEN Err(r2.err)
    ELSE Ok(<<r1.val, r2.val, fc>>)

---------------------------------------------------------------------------
(* Hunk bodies *)

\* a Line borrows a slice of the input: `at` is the physical line it lies in
Line(kind, text, at) == [kind |-> kind, text |-> text, at |-> at]

\* strip_newline that returns its argument whole
strip_newline_Whole(s) ==
    IF IsSome(strip_suffix(s, <<LF>>)) THEN Ok(s) ELSE Err(E_MISSING_NEWLINE)

strip_newline(s) ==
    IF IsSome(strip_suffix(s, <<LF>>)) THEN Ok(Unwrap(strip_suffix(s, <<LF>>)))
    ELSE Err(E_MISSING_NEWLINE)

\* super::hunk_lines_count
hunk_lines_count(ls) ==
    <<Cardinality({i \in 1..Len(ls) : ls[i].kind \in {"Context", "Delete"}}),
      Cardinality({i \in 1..Len(ls) : ls[i].kind \in {"Context", "Insert"}})>>

\* the guard of the first branch of the hunk_lines loop
IsHunkBoundary(line) == starts_with(line, <<"@">>)

\* the "-" branch without its flag check
DeleteBranch_NoCheck(text, at, flag) == Ok(Line("Delete", text, at))

\* the "-" branch of hunk_lines
DeleteBranch(text, at, flag) ==
    IF flag THEN Err(E_NO_MORE_DELETED) ELSE Ok(Line("Delete", text, at))

\* the "+" branch of hunk_lines
InsertBranch(text, at, flag) ==
    IF flag THEN Err(E_NO_MORE_INSERTED) ELSE Ok(Line("Insert", text, at))

\* the marker branch of hunk_lines: the popped last line, stripped
MarkerBranch(ls) ==
    IF ls = <<>> THEN Err(E_UNEXPECTED_MARKER)
    ELSE LET last == ls[Len(ls)]
             stripped == strip_newline(last.text)
         IN  IF stripped.ok THEN Ok(Line(last.kind, stripped.val, last.at))
             ELSE Err(stripped.err)

\* the loop body without its "expected end of hunk" branch
BodyLine_NoEndCheck(line, at, ls, ncontext, ndelete, ninsert) ==
    IF IsSome(strip_prefix(line, <<SPACE>>))
    THEN [res |-> Ok(Line("Context", Unwrap(strip_prefix(line, <<SPACE>>)), at)),
          popped |-> FALSE]
    ELSE IF starts_with(line, <<LF>>)
    THEN [res |-> Ok(Line("Context", line, at)), popped |-> FALSE]
    ELSE IF IsSome(strip_prefix(line, <<"-">>))
    THEN [res |-> DeleteBranch(Unwrap(strip_prefix(line, <<"-">>)), at, ndelete),
          popped |-> FALSE]
    ELSE IF IsSome(strip_prefix(line, <<"+">>))
    THEN [res |-> InsertBranch(Unwrap(strip_prefix(line, <<"+">>)), at, ninsert),
          popped |-> FALSE]
    ELSE IF starts_with(line, NO_NEWLINE_AT_EOF)
    THEN [res |-> MarkerBranch(ls), popped |-> TRUE]
    ELSE [res |-> Err(E_UNEXPECTED_LINE), popped |-> FALSE]

\* what one iteration of the hunk_lines loop does with the peeked line, once
\* it is known not to start with "@": the Line it pushes (val), whether the
\* last line was popped first (popped), or the error it returns
BodyLine(line, at, ls, ncontext, ndelete, ninsert) ==
    IF ncontext THEN [res |-> Err(E_END_OF_HUNK), popped |-> FALSE]
    ELSE IF IsSome(strip_prefix(line, <<SPACE>>))
    THEN [res |-> Ok(Line("Context", Unwrap(strip_prefix(line, <<SPACE>>)), at)),
          popped |-> FALSE]
    ELSE IF starts_with(line, <<LF>>)
    THEN [res |-> Ok(Line("Context", line, at)), popped |-> FALSE]
    ELSE IF IsSome(strip_prefix(line, <<"-">>))
    THEN [res |-> DeleteBranch(Unwrap(strip_prefix(line, <<"-">>)), at, ndelete),
          popped |-> FALSE]
    ELSE IF IsSome(strip_prefix(line, <<"+">>))
    THEN [res |-> InsertBranch(Unwrap(strip_prefix(line, <<"+">>)), at, ninsert),
          popped |-> FALSE]
    ELSE IF starts_with(line, NO_NEWLINE_AT_EOF)
    THEN [res |-> MarkerBranch(ls), popped |-> TRUE]
    ELSE [res |-> Err(E_UNEXPECTED_LINE), popped |-> FALSE]

\* the count check with "&&" for "||"
CountsMatch_BothDiffer(ls, r1, r2) ==
    ~(hunk_lines_count(ls)[1] # r1.len /\ hunk_lines_count(ls)[2] # r2.len)

\* the count check of hunk()
CountsMatch(ls, r1, r2) ==
    ~(hunk_lines_count(ls)[1] # r1.len \/ hunk_lines_count(ls)[2] # r2.len)

Hunk(r1, r2, fc, ls) ==
    [old_range |-> r1, new_range |-> r2, function_context |-> fc, lines |-> ls]

\* the order check with ">" for ">="
verify_hunks_in_order_Strict(hs) ==
    \A i \in 1..(Len(hs) - 1) :
        ~(RangeEnd(hs[i].old_range) > hs[i + 1].old_range.start
          \/ RangeEnd(hs[i].new_range) > hs[i + 1].new_range.start)

verify_hunks_in_order(hs) ==
    \A i \in 1..(Len(hs) - 1) :
        ~(RangeEnd(hs[i].old_range) >= hs[i + 1].old_range.start
          \/ RangeEnd(hs[i].new_range) >= hs[i + 1].new_range.start)

---------------------------------------------------------------------------
(* The parser *)

\* Parser::peek
HasLine == pos < Len(input)
Peek == input[pos + 1]

\* a cursor that next() leaves in place
Advance_Stay(p) == p

\* Parser::next, when a line is left: the cursor after it
Advance(p) == p + 1

Fail(e) == pc' = "err" /\ err' = e

InitOn(inputs) ==
    /\ input \in inputs
    /\ pos = 0
    /\ pc = "preamble"
    /\ err = ""
    /\ filename1 = <<>>
    /\ filename2 = <<>>
    /\ hunks = <<>>
    /\ range1 = HunkRange(0, 0)
    /\ range2 = HunkRange(0, 0)
    /\ function_context = None
    /\ lines = <<>>
    /\ no_newline_context = FALSE
    /\ no_newline_delete = FALSE
    /\ no_newline_insert = FALSE

\* the preamble loop taking the "--- " line as it stops
skip_header_preamble_Consuming ==
    /\ pc = "preamble"
    /\ IF HasLine
       THEN pos' = Advance(pos)
            /\ pc' = IF starts_with(Peek, <<"-", "-", "-", SPACE>>) THEN "filename1" ELSE pc
       ELSE pos' = pos /\ pc' = "filename1"
    /\ UNCHANGED <<input, err, filename1, filename2, hunks, range1, range2,
                   function_context, lines, no_newline_context,
                   no_newline_delete, no_newline_insert>>

\* one iteration of the loop of skip_header_preamble
skip_header_preamble ==
    /\ pc = "preamble"
    /\ IF HasLine /\ ~starts_with(Peek, <<"-", "-", "-", SPACE>>)
       THEN pos' = Advance(pos) /\ pc' = pc
       ELSE pos' = pos /\ pc' = "filename1"
    /\ UNCHANGED <<input, err, filename1, filename2, hunks, range1, range2,
                   function_context, lines, no_newline_context,
                   no_newline_delete, no_newline_insert>>

\* patch_header: let filename1 = parse_filename("--- ", parser.next()?)?
patch_header_filename1 ==
    /\ pc = "filename1"
    /\ IF ~HasLine
       THEN Fail(E_EOF) /\ UNCHANGED <<pos, filename1>>
       ELSE LET r == parse_filename(<<"-", "-", "-", SPACE>>, Peek) IN
            /\ pos' = Advance(pos)
            /\ IF r.ok
               THEN filename1' = r.val /\ pc' = "filename2" /\ err' = err
               ELSE Fail(r.err) /\ filename1' = filename1
    /\ UNCHANGED <<input, filename2, hunks, range1, range2, function_context,
                   lines, no_newline_context, no_newline_delete,
                   no_newline_insert>>

\* patch_header: let filename2 = parse_filename("+++ ", parser.next()?)?
patch_header_filename2 ==
    /\ pc = "filename2"
    /\ IF ~HasLine
       THEN Fail(E_EOF) /\ UNCHANGED <<pos, filename2>>
       ELSE LET r == parse_filename(<<"+", "+", "+", SPACE>>, Peek) IN
            /\ pos' = Advance(pos)
            /\ IF r.ok
               THEN filename2' = r.val /\ pc' = "hunks" /\ err' = err
               ELSE Fail(r.err) /\ filename2' = filename2
    /\ UNCHANGED <<input, filename1, hunks, range1, range2, function_context,
                   lines, no_newline_context, no_newline_delete,
                   no_newline_insert>>

\* hunks(): the loop found a line; hunk() takes it as the hunk header
hunk_start ==
    /\ pc = "hunks"
    /\ HasLine
    /\ \E r \in {hunk_header(Peek)} :
       /\ pos' = Advance(pos)
       /\ IF r.ok
          THEN /\ range1' = r.val[1]
               /\ range2' = r.val[2]
               /\ function_context' = r.val[3]
               /\ lines' = <<>>
               /\ no_newline_context' = FALSE
               /\ no_newline_delete' = FALSE
               /\ no_newline_insert' = FALSE
               /\ pc' = "hunk_lines"
               /\ err' = err
          ELSE /\ Fail(r.err)
               /\ UNCHANGED <<range1, range2, function_context, lines,
                              no_newline_context, no_newline_delete,
                              no_newline_insert>>
    /\ UNCHANGED <<input, filename1, filename2, hunks>>

\* one iteration of the loop of hunk_lines
hunk_lines ==
    /\ pc = "hunk_lines"
    /\ IF ~HasLine \/ IsHunkBoundary(Peek)
       THEN /\ pc' = "hunk_check"
            /\ UNCHANGED <<pos, err, lines, no_newline_context,
                           no_newline_delete, no_newline_insert>>
       ELSE LET b == BodyLine(Peek, pos + 1, lines, no_newline_context,
                              no_newline_delete, no_newline_insert)
            IN  IF b.res.ok
                THEN /\ lines' = Append(IF b.popped
                                        THEN SubSeq(lines, 1, Len(lines) - 1)
                                        ELSE lines, b.res.val)
                     /\ no_newline_context' =
                            (no_newline_context \/ (b.popped /\ b.res.val.kind = "Context"))
                     /\ no_newline_delete' =
                            (no_newline_delete \/ (b.popped /\ b.res.val.kind = "Delete"))
                     /\ no_newline_insert' =
                            (no_newline_insert \/ (b.popped /\ b.res.val.kind = "Insert"))
                     /\ pos' = Advance(pos)
                     /\ UNCHANGED <<pc, err>>
                ELSE /\ Fail(b.res.err)
                     /\ UNCHANGED <<pos, lines, no_newline_context,
                                    no_newline_delete, no_newline_insert>>
    /\ UNCHANGED <<input, filename1, filename2, hunks, range1, range2,
                   function_context>>

\* hunk(): the count check and the Hunk returned to hunks()
hunk_check ==
    /\ pc = "hunk_check"
    /\ IF CountsMatch(lines, range1, range2)
       THEN /\ hunks' = Append(hunks, Hunk(range1, range2, function_context, lines))
            /\ pc' = "hunks"
            /\ err' = err
       ELSE Fail(E_COUNT) /\ hunks' = hunks
    /\ UNCHANGED <<input, pos, filename1, filename2, range1, range2,
                   function_context, lines, no_newline_context,
                   no_newline_delete, no_newline_insert>>

\* hunks(): the cursor is exhausted; the order check and the return
hunks_end ==
    /\ pc = "hunks"
    /\ ~HasLine
    /\ IF verify_hunks_in_order(hunks)
       THEN pc' = "done" /\ err' = err
       ELSE Fail(E_ORDER)
    /\ UNCHANGED <<input, pos, filename1, filename2, hunks, range1, range2,
                   function_context, lines, no_newline_context,
                   no_newline_delete, no_newline_insert>>

Next ==
    \/ skip_header_preamble
    \/ patch_header_filename1
    \/ patch_header_filename2
    \/ hunk_start
    \/ hunk_lines
    \/ hunk_check
    \/ hunks_end

Returned == pc \in {"done", "err"}

---------------------------------------------------------------------------
(* Inputs *)

BoundedSeq(S, n) == UNION {[1..k -> S] : k \in 0..n}

OLD_LINE == <<"-", "-", "-", SPACE, "a", LF>>
NEW_LINE == <<"+", "+", "+", SPACE, "b", LF>>

\* "@@ -<r1> +<r2> @@<tail>\n"
HeaderLine(r1, r2, tail) ==
    <<"@", "@", SPACE, "-">> \o r1 \o <<SPACE, "+">> \o r2
        \o <<SPACE, "@", "@">> \o tail \o <<LF>>

CONTEXT_LINE == <<SPACE, "c", LF>>
DELETE_LINE == <<"-", "d", LF>>
INSERT_LINE == <<"+", "i", LF>>
EMPTY_LINE == <<LF>>
MARKER_LINE == NO_NEWLINE_AT_EOF \o <<LF>>
OTHER_LINE == <<"x", LF>>

\* a final line without its "\n"
Unterminated(line) == SubSeq(line, 1, Len(line) - 1)

MaxBodyLines == 3

BodyVocabulary ==
    {CONTEXT_LINE, DELETE_LINE, INSERT_LINE, EMPTY_LINE, MARKER_LINE, OTHER_LINE,
     HeaderLine(<<"5">>, <<"5">>, <<>>)}

BodyHeaders ==
    {HeaderLine(<<"1">>, <<"1">>, <<>>),
     HeaderLine(<<"1", ",", "2">>, <<"1", ",", "2">>, <<>>),
     HeaderLine(<<"1", ",", "2">>, <<"1">>, <<>>)}

\* bodies of terminated lines, and the same with the last line cut short
\* (the line iterator yields no empty line)
Bodies(vocabulary, n) ==
    LET whole == BoundedSeq(vocabulary, n)
    IN  whole \cup {[b EXCEPT ![Len(b)] = Unterminated(b[Len(b)])] :
                        b \in {w \in whole : w # <<>> /\ Len(w[Len(w)]) > 1}}

BodyInputs(n) ==
    {<<OLD_LINE, NEW_LINE, h>> \o b :
        h \in BodyHeaders, b \in Bodies(BodyVocabulary, n)}

Init == InitOn(BodyInputs(MaxBodyLines))

Spec == Init /\ [][Next]_vars

---------------------------------------------------------------------------
(* Inputs with marked lines and a second hunk *)

MaxMarkedLines == 5

MarkedVocabulary ==
    {CONTEXT_LINE, DELETE_LINE, INSERT_LINE, MARKER_LINE,
     HeaderLine(<<"5">>, <<"5", ",", "0">>, <<>>)}

MarkedHeaders ==
    {HeaderLine(<<"1">>, <<"1">>, <<>>),
     HeaderLine(<<"1">>, <<"1", ",", "0">>, <<>>)}

MarkedInputs(n) ==
    {<<OLD_LINE, NEW_LINE, h>> \o b :
        h \in MarkedHeaders, b \in BoundedSeq(MarkedVocabulary, n)}

SpecMarked == InitOn(MarkedInputs(MaxMarkedLines)) /\ [][Next]_vars

---------------------------------------------------------------------------
(* Inputs of several small hunks *)

MaxHunks == 2

\* range texts "1,0", "1", "2,0", "2", "3"
OrderRanges ==
    {<<"1", ",", "0">>, <<"1">>, <<"2", ",", "0">>, <<"2">>, <<"3">>}

\* a hunk whose body fits the lengths its header declares
Block(r1, r2) ==
    <<HeaderLine(r1, r2, <<>>)>> \o
        (IF Len(r1) = 1 /\ Len(r2) = 1 THEN <<CONTEXT_LINE>>
         ELSE (IF Len(r1) = 1 THEN <<DELETE_LINE>> ELSE <<>>)
                  \o (IF Len(r2) = 1 THEN <<INSERT_LINE>> ELSE <<>>))

Blocks == {Block(r1, r2) : r1 \in OrderRanges, r2 \in OrderRanges}

RECURSIVE Flatten(_)
Flatten(ss) == IF ss = <<>> THEN <<>> ELSE ss[1] \o Flatten(Tail(ss))

OrderInputs(n) ==
    {<<OLD_LINE, NEW_LINE>> \o Flatten(bs) : bs \in BoundedSeq(Blocks, n)}

SpecOrder == InitOn(OrderInputs(MaxHunks)) /\ [][Next]_vars

---------------------------------------------------------------------------
(* Inputs around the two filename lines *)

MaxHeaderLines == 4

EMPTY_HUNK == HeaderLine(<<"1", ",", "0">>, <<"1", ",", "0">>, <<>>)

HeaderVocabulary ==
    {<<"d", LF>>,
     OLD_LINE,
     NEW_LINE,
     <<"-", "-", "-", SPACE, "a", TAB, "t", LF>>,
     <<"-", "-", "-", SPACE, "a", BACKSLASH, LF>>,
     EMPTY_HUNK}

HeaderInputs(n) == Bodies(HeaderVocabulary, n)

SpecHeader == InitOn(HeaderInputs(MaxHeaderLines)) /\ [][Next]_vars

---------------------------------------------------------------------------
(* Inputs with one filename drawn byte by byte *)

MaxNameLen == 3

NameAlphabet == {"a", "x", "n", "t", "0", "r", BACKSLASH, QUOTE}

Names(n) == BoundedSeq(NameAlphabet, n)

FilenameInputs(n) ==
    {<<(<<"-", "-", "-", SPACE>> \o f \o <<LF>>), NEW_LINE, EMPTY_HUNK>> :
        f \in Names(n) \cup {<<QUOTE>> \o m \o <<QUOTE>> : m \in Names(n)}}

SpecFilename == InitOn(FilenameInputs(MaxNameLen)) /\ [][Next]_vars

---------------------------------------------------------------------------
(* Inputs with one hunk header drawn from its parts *)

MaxRangeLen == 3

RangeAlphabet == {"0", "1", ",", "x"}

RangeTexts(n) == BoundedSeq(RangeAlphabet, n)

FixedRangeTexts == {<<"1">>, <<"2", ",", "0">>, <<"x">>}

Tails ==
    {<<>>, <<SPACE>>, <<SPACE, "f">>, <<"f">>, <<SPACE, "@", "@">>, <<SPACE, SPACE, "f">>}

DrawnHeaders(n) ==
    {HeaderLine(r, f, t) : r \in RangeTexts(n), f \in FixedRangeTexts, t \in Tails}
        \cup {HeaderLine(f, r, t) : r \in RangeTexts(n), f \in FixedRangeTexts, t \in Tails}

\* headers that lack a prefix, a sign or the terminator
BrokenHeaders ==
    {<<"@", "@", SPACE, "-", "1", SPACE, "+", "1", LF>>,
     <<"@", "@", "-", "1", SPACE, "+", "1", SPACE, "@", "@", LF>>,
     <<"@", "@", SPACE, "1", SPACE, "+", "x", SPACE, "@", "@", LF>>,
     <<"@", "@", SPACE, "-", "1", SPACE, "1", SPACE, "@", "@", LF>>,
     <<"@", "@", SPACE, "-", "1", SPACE, "@", "@", LF>>}

HunkHeaderInputs(n) ==
    {<<OLD_LINE, NEW_LINE, h>> \o rest :
        h \in DrawnHeaders(n) \cup BrokenHeaders, rest \in {<<>>, <<CONTEXT_LINE>>}}
        \cup {<<OLD_LINE, NEW_LINE, Unterminated(h)>> : h \in DrawnHeaders(n)}

SpecHunkHeader == InitOn(HunkHeaderInputs(MaxRangeLen)) /\ [][Next]_vars

---------------------------------------------------------------------------
(* Termination: parse() runs its steps until it returns *)

MaxTermLines == 3

TermInputs(n) == BodyInputs(MaxBodyLines) \cup HeaderInputs(n)

SpecTerm == InitOn(TermInputs(MaxTermLines)) /\ [][Next]_vars /\ WF_vars(Next)

---------------------------------------------------------------------------
(* What the claims say about an input, read off the physical lines *)

Min(S) == CHOOSE x \in S : \A y \in S : x <= y
Max(S) == CHOOSE x \in S : \A y \in S : x >= y

IsMarkerAt(i) == i <= Len(input) /\ starts_with(input[i], NO_NEWLINE_AT_EOF)

\* the physical lines starting with "--- "
OldLines == {i \in 1..Len(input) : starts_with(input[i], <<"-", "-", "-", SPACE>>)}

\* the hunk header lines: the lines after both filename lines starting with "@"
HeaderIndices ==
    IF OldLines = {} THEN {}
    ELSE {i \in (Min(OldLines) + 2)..Len(input) : starts_with(input[i], <<"@">>)}

HunkHeaderAt(k) ==
    CHOOSE i \in HeaderIndices : Cardinality({j \in HeaderIndices : j <= i}) = k

\* the physical lines from i to j lying below header line h, no header between
BodyBetween(h, last) == {i \in (h + 1)..last : \A j \in (h + 1)..i : j \notin HeaderIndices}

BodyOf(k) == BodyBetween(HunkHeaderAt(k), Len(input))

\* the body lines of the hunk the cursor is in
CurrentBody == BodyBetween(Max({h \in HeaderIndices : h <= pos}), pos)

CountsOld(body) ==
    Cardinality({i \in body : input[i][1] \in {SPACE, LF, "-"}})
CountsNew(body) ==
    Cardinality({i \in body : input[i][1] \in {SPACE, LF, "+"}})

KindCount(ls, kinds) == Cardinality({i \in 1..Len(ls) : ls[i].kind \in kinds})

---------------------------------------------------------------------------
(* C1 *)

C1_ReturnedCounts ==
    pc = "done" =>
        /\ Len(hunks) = Cardinality(HeaderIndices)
        /\ \A k \in 1..Len(hunks) :
            /\ CountsOld(BodyOf(k)) = hunks[k].old_range.len
            /\ CountsNew(BodyOf(k)) = hunks[k].new_range.len
            /\ KindCount(hunks[k].lines, {"Context", "Delete"}) = hunks[k].old_range.len
            /\ KindCount(hunks[k].lines, {"Context", "Insert"}) = hunks[k].new_range.len

C1_MismatchFails ==
    (pc = "hunk_check"
        /\ (CountsOld(CurrentBody) # range1.len \/ CountsNew(CurrentBody) # range2.len))
    => (pc' = "err" /\ err' = E_COUNT)

\* C1: every hunk of a returned Patch has (Context + Delete) lines = old_range.len
\* and (Context + Insert) lines = new_range.len, marker lines not counted, and
\* a hunk whose body counts differ from either declared length fails the parse
\* with "Hunk header does not match hunk".
C1_HunkCounts == []C1_ReturnedCounts /\ [][C1_MismatchFails]_vars

C1_Witness ==
    /\ pc = "done"
    /\ \E k \in 1..Len(hunks) :
        /\ hunks[k].old_range.len = 2
        /\ hunks[k].new_range.len = 1
        /\ \E i \in BodyOf(k) : IsMarkerAt(i)

---------------------------------------------------------------------------
(* C4 *)

EndsWithNewline(text) == text # <<>> /\ text[Len(text)] = LF

\* a physical body line without its prefix; a bare "\n" line has none
Unprefixed(phys) == IF phys[1] \in {SPACE, "-", "+"} THEN Tail(phys) ELSE phys

\* the cursor has just consumed a marker that follows a Context line
ContextJustMarked ==
    /\ pc = "hunk_lines"
    /\ pos >= 2
    /\ IsMarkerAt(pos)
    /\ input[pos - 1][1] \in {SPACE, LF}
    /\ pos - 1 \in CurrentBody

C4_Stripped ==
    ContextJustMarked =>
        /\ lines # <<>>
        /\ lines[Len(lines)].kind = "Context"
        /\ lines[Len(lines)].at = pos - 1
        /\ lines[Len(lines)].text \o <<LF>> = Unprefixed(input[pos - 1])

C4_NothingFollows ==
    ContextJustMarked =>
        IF HasLine /\ ~starts_with(Peek, <<"@">>)
        THEN pc' = "err" /\ err' = E_END_OF_HUNK /\ pos' = pos
        ELSE pc' = "hunk_check" /\ lines' = lines /\ pos' = pos

\* C4: a Context line followed by the marker is stored without its trailing
\* newline, and after it the hunk accepts no line: the next line starts with
\* "@" or the input ends, and any other line fails with "expected end of hunk".
C4_ContextMarkerEndsHunk == []C4_Stripped /\ [][C4_NothingFollows]_vars

C4_Witness ==
    /\ pc = "err"
    /\ err = E_END_OF_HUNK
    /\ IsMarkerAt(pos)
    /\ lines # <<>>
    /\ lines[Len(lines)] = Line("Context", <<"c">>, pos - 1)

---------------------------------------------------------------------------
(* C6 *)

StoredLines == {<<k, j>> \in (1..Len(hunks)) \X (1..(MaxBodyLines + 2)) : j <= Len(hunks[k].lines)}

KindOf(phys) ==
    CASE phys[1] = "-" -> "Delete" [] phys[1] = "+" -> "Insert" [] OTHER -> "Context"

\* the stored lines of a returned hunk are its body lines that are no markers,
\* in order, each of the kind its first character says
C6_LinesOfBody ==
    \A k \in 1..Len(hunks) :
        /\ {hunks[k].lines[j].at : j \in 1..Len(hunks[k].lines)}
               = {i \in BodyOf(k) : ~IsMarkerAt(i)}
        /\ \A j \in 1..Len(hunks[k].lines) :
            /\ j > 1 => hunks[k].lines[j - 1].at < hunks[k].lines[j].at
            /\ hunks[k].lines[j].kind = KindOf(input[hunks[k].lines[j].at])

C6_Text(l) ==
    l.text = IF IsMarkerAt(l.at + 1)
             THEN SubSeq(Unprefixed(input[l.at]), 1, Len(Unprefixed(input[l.at])) - 1)
             ELSE Unprefixed(input[l.at])

\* C6 as amended: the stored text is the physical line without its prefix, its
\* trailing newline included unless the marker follows it, which removes
\* exactly that newline; a stored line lacks a trailing newline if and only if
\* the marker follows it or it is the unterminated last line of the input.
C6_StoredText ==
    pc = "done" =>
        /\ C6_LinesOfBody
        /\ \A p \in StoredLines :
            LET l == hunks[p[1]].lines[p[2]] IN
            /\ C6_Text(l)
            /\ IsMarkerAt(l.at + 1) => EndsWithNewline(input[l.at])
            /\ ~EndsWithNewline(l.text)
                   <=> (IsMarkerAt(l.at + 1)
                        \/ (l.at = Len(input) /\ ~EndsWithNewline(input[l.at])))

\* C6 as claimed: a stored line lacks a trailing newline if and only if the
\* marker follows it.
C6_Original ==
    pc = "done" =>
        /\ C6_LinesOfBody
        /\ \A p \in StoredLines :
            LET l == hunks[p[1]].lines[p[2]] IN
            /\ C6_Text(l)
            /\ ~EndsWithNewline(l.text) <=> IsMarkerAt(l.at + 1)

C6_Witness ==
    /\ pc = "done"
    /\ \E p \in StoredLines, q \in StoredLines :
        /\ p[1] = q[1]
        /\ IsMarkerAt(hunks[p[1]].lines[p[2]].at + 1)
        /\ hunks[p[1]].lines[p[2]].text = <<"d">>
        /\ hunks[q[1]].lines[q[2]].text = <<"c", LF>>

---------------------------------------------------------------------------
(* C9 *)

\* a line of the current hunk body with this first character has been marked
MarkedInBody(firsts) ==
    \E i \in CurrentBody :
        input[i][1] \in firsts /\ i + 1 <= pos /\ IsMarkerAt(i + 1)

AtBodyLine(first) == pc = "hunk_lines" /\ HasLine /\ starts_with(Peek, <<first>>)

C9_Flags ==
    pc = "hunk_lines" =>
        /\ no_newline_context <=> MarkedInBody({SPACE, LF})
        /\ no_newline_delete <=> MarkedInBody({"-"})
        /\ no_newline_insert <=> MarkedInBody({"+"})

C9_MarkedIsLast ==
    pc = "done" =>
        \A k \in 1..Len(hunks) : \A i, j \in 1..Len(hunks[k].lines) :
            (IsMarkerAt(hunks[k].lines[i].at + 1) /\ i < j)
                => hunks[k].lines[j].kind # hunks[k].lines[i].kind

\* with no marked line of its kind (and no marked Context line) in this hunk,
\* whatever earlier hunks held, a "-" or "+" line is taken
C9_Taken ==
    /\ (AtBodyLine("-") /\ ~MarkedInBody({"-"}) /\ ~MarkedInBody({SPACE, LF}))
           => (pc' = "hunk_lines"
               /\ lines' = Append(lines, Line("Delete", Tail(Peek), pos + 1)))
    /\ (AtBodyLine("+") /\ ~MarkedInBody({"+"}) /\ ~MarkedInBody({SPACE, LF}))
           => (pc' = "hunk_lines"
               /\ lines' = Append(lines, Line("Insert", Tail(Peek), pos + 1)))

C9_Refused ==
    /\ (AtBodyLine("-") /\ MarkedInBody({"-"}) /\ ~MarkedInBody({SPACE, LF}))
           => (pc' = "err" /\ err' = E_NO_MORE_DELETED)
    /\ (AtBodyLine("+") /\ MarkedInBody({"+"}) /\ ~MarkedInBody({SPACE, LF}))
           => (pc' = "err" /\ err' = E_NO_MORE_INSERTED)
    /\ (AtBodyLine("-") /\ MarkedInBody({"-"}) /\ MarkedInBody({SPACE, LF}))
           => (pc' = "err" /\ err' = E_END_OF_HUNK)
    /\ (AtBodyLine("+") /\ MarkedInBody({"+"}) /\ MarkedInBody({SPACE, LF}))
           => (pc' = "err" /\ err' = E_END_OF_HUNK)

C9_RefusedAlways ==
    /\ (AtBodyLine("-") /\ MarkedInBody({"-"}))
           => (pc' = "err" /\ err' = E_NO_MORE_DELETED)
    /\ (AtBodyLine("+") /\ MarkedInBody({"+"}))
           => (pc' = "err" /\ err' = E_NO_MORE_INSERTED)

\* C9 as amended: once a Delete (Insert) line of a hunk is marked, a later "-"
\* ("+") line of that hunk fails the parse, with "expected no more deleted
\* (inserted) lines" unless a Context line of the hunk was marked too, and then
\* with "expected end of hunk"; the flags are those of the current hunk only;
\* in a returned hunk a marked line is the last of its kind.
C9_MarkedKindEnds ==
    [](C9_Flags /\ C9_MarkedIsLast) /\ [][C9_Taken /\ C9_Refused]_vars

\* C9 as claimed: the later "-" ("+") line always fails with "expected no more
\* deleted (inserted) lines".
C9_Original ==
    [](C9_Flags /\ C9_MarkedIsLast) /\ [][C9_Taken /\ C9_RefusedAlways]_vars

C9_Witness ==
    /\ pc = "err"
    /\ err = E_NO_MORE_DELETED
    /\ MarkedInBody({"-"})
    /\ starts_with(Peek, <<"-">>)

---------------------------------------------------------------------------
(* C2 *)

Touches(a, b) == a.start + a.len >= b.start

BadPairs(hs) ==
    {i \in 1..(Len(hs) - 1) :
        Touches(hs[i].old_range, hs[i + 1].old_range)
            \/ Touches(hs[i].new_range, hs[i + 1].new_range)}

C2_ReturnedInOrder ==
    pc = "done" =>
        \A i \in 1..(Len(hunks) - 1) :
            /\ hunks[i].old_range.start + hunks[i].old_range.len < hunks[i + 1].old_range.start
            /\ hunks[i].new_range.start + hunks[i].new_range.len < hunks[i + 1].new_range.start

C2_BadPairFails ==
    (pc = "hunks" /\ ~HasLine /\ BadPairs(hunks) # {})
        => (pc' = "err" /\ err' = E_ORDER)

\* C2: when all hunks are parsed and some adjacent pair has earlier.end >=
\* later.start in the old or in the new ranges, parse fails with "Hunks not in
\* order or overlap"; every returned Patch has, for each adjacent pair, earlier
\* end < later start in both.
C2_HunksInOrder == []C2_ReturnedInOrder /\ [][C2_BadPairFails]_vars

\* two hunks that merely touch in the old ranges are rejected
C2_Witness ==
    /\ pc = "err"
    /\ err = E_ORDER
    /\ Len(hunks) = 2
    /\ hunks[1].old_range.start + hunks[1].old_range.len = hunks[2].old_range.start
    /\ hunks[1].new_range.start + hunks[1].new_range.len < hunks[2].new_range.start

---------------------------------------------------------------------------
(* C5 *)

FirstOldLine == Min(OldLines)

\* the filename text of a "--- " or "+++ " line: from column 5 to the first
\* tab or newline
NameEnds(line) == {i \in 5..Len(line) : line[i] \in {TAB, LF}}
NameIn(line) == SubSeq(line, 5, Min(NameEnds(line)) - 1)

\* the line holds an unquoted filename free of bytes that need escaping
PlainName(line) ==
    /\ NameEnds(line) # {}
    /\ \A i \in 1..Len(NameIn(line)) : NameIn(line)[i] \notin ESCAPED_CHARS_BYTES

\* the line holds a filename wrapped in a double-quote pair
QuotedName(line) ==
    /\ NameEnds(line) # {}
    /\ Len(NameIn(line)) >= 2
    /\ NameIn(line)[1] = QUOTE
    /\ NameIn(line)[Len(NameIn(line))] = QUOTE

HeaderParsed == pc \in {"hunks", "hunk_lines", "hunk_check", "done"}

C5_Preamble ==
    pc = "filename1" =>
        pos = IF OldLines = {} THEN Len(input) ELSE FirstOldLine - 1

C5_Filenames ==
    HeaderParsed =>
        /\ OldLines # {}
        /\ FirstOldLine < Len(input)
        /\ starts_with(input[FirstOldLine + 1], <<"+", "+", "+", SPACE>>)
        /\ filename1 = NameIn(input[FirstOldLine])
        /\ filename2 = NameIn(input[FirstOldLine + 1])

C5_NoOldLine == (Returned /\ OldLines = {}) => (pc = "err" /\ err = E_EOF)

\* C5 as amended: lines before the first "--- " line are discarded; the old
\* filename is taken from that line and the new one from the next line; when
\* the "--- " line yields its filename, a next line not starting with "+++ "
\* fails with "unable to parse filename" and a missing next line with
\* "unexpected EOF", as does an input with no "--- " line; a "--- " line whose
\* own filename does not parse fails with that filename's error first.
C5_Header ==
    /\ C5_Preamble
    /\ C5_Filenames
    /\ C5_NoOldLine
    /\ (Returned /\ OldLines # {}) =>
        IF PlainName(input[FirstOldLine])
        THEN /\ FirstOldLine = Len(input) => (pc = "err" /\ err = E_EOF)
             /\ (FirstOldLine < Len(input)
                    /\ ~starts_with(input[FirstOldLine + 1], <<"+", "+", "+", SPACE>>))
                 => (pc = "err" /\ err = E_FILENAME)
        ELSE ~QuotedName(input[FirstOldLine]) =>
                (pc = "err" /\ err \in {E_UNTERMINATED, E_UNQUOTED} /\ pos = FirstOldLine)
    /\ (pc = "err" /\ err = E_EOF) => pos = Len(input)

\* C5 as claimed: nothing after the "--- " line always fails with "unexpected
\* EOF", and a next line not starting with "+++ " always with "unable to
\* parse filename".
C5_Original ==
    /\ C5_Preamble
    /\ C5_Filenames
    /\ C5_NoOldLine
    /\ (Returned /\ OldLines # {}) =>
        /\ FirstOldLine = Len(input) => (pc = "err" /\ err = E_EOF)
        /\ (FirstOldLine < Len(input)
               /\ ~starts_with(input[FirstOldLine + 1], <<"+", "+", "+", SPACE>>))
            => (pc = "err" /\ err = E_FILENAME)

\* a preamble was skipped and nothing follows the "--- " line
C5_Witness ==
    /\ pc = "err"
    /\ err = E_EOF
    /\ OldLines # {}
    /\ FirstOldLine = Len(input)
    /\ FirstOldLine > 1
    /\ filename1 = <<"a">>

---------------------------------------------------------------------------
(* C3 *)

\* the byte an escape letter stands for
EscapedByte(e) ==
    CASE e = "n" -> LF [] e = "t" -> TAB [] e = "0" -> NUL [] e = "r" -> CR
      [] e = QUOTE -> QUOTE [] e = BACKSLASH -> BACKSLASH

\* the decoding the claim describes, left to right
RECURSIVE Decoded(_)
Decoded(q) ==
    IF q = <<>> THEN Ok(<<>>)
    ELSE IF q[1] = BACKSLASH
    THEN IF Len(q) < 2 THEN Err(E_EXPECTED_ESCAPED)
         ELSE IF q[2] \notin EscapeLetters THEN Err(E_INVALID_ESCAPED)
         ELSE LET rest == Decoded(SubSeq(q, 3, Len(q)))
              IN  IF rest.ok THEN Ok(<<EscapedByte(q[2])>> \o rest.val) ELSE rest
    ELSE IF q[1] \in ESCAPED_CHARS_BYTES THEN Err(E_INVALID_UNESCAPED)
    ELSE LET rest == Decoded(Tail(q))
         IN  IF rest.ok THEN Ok(<<q[1]>> \o rest.val) ELSE rest

\* line 1 is "--- " followed by a filename in a double-quote pair
QuotedOldLine ==
    /\ Len(input[1]) >= 7
    /\ input[1][5] = QUOTE
    /\ input[1][Len(input[1]) - 1] = QUOTE

QuotedText == SubSeq(input[1], 6, Len(input[1]) - 2)

\* C3: a quoted filename decodes each escape sequence to the byte it stands
\* for and passes the other bytes through, and a backslash followed by any
\* other byte fails with "invalid escaped character".
C3_EscapesDecoded ==
    (pos >= 1 /\ QuotedOldLine) =>
        /\ Decoded(QuotedText).ok
            => (~(pc = "err" /\ pos = 1) /\ filename1 = Decoded(QuotedText).val)
        /\ (~Decoded(QuotedText).ok /\ Decoded(QuotedText).err = E_INVALID_ESCAPED)
            => (pc = "err" /\ err = E_INVALID_ESCAPED)

---------------------------------------------------------------------------
(* C7 and C8 *)

HeaderText == input[3]

FirstSpaces == {i \in 5..Len(HeaderText) : HeaderText[i] = SPACE}
FirstSpace == Min(FirstSpaces)
Terminators ==
    {i \in 5..(Len(HeaderText) - 2) : SubSeq(HeaderText, i, i + 2) = <<SPACE, "@", "@">>}
Terminator == Min(Terminators)

OldText == SubSeq(HeaderText, 5, FirstSpace - 1)
NewText == SubSeq(HeaderText, FirstSpace + 2, Terminator - 1)
\* all that follows the first " @@", the newline of the line included
AfterTerminator == SubSeq(HeaderText, Terminator + 3, Len(HeaderText))

\* line 3 is "@@ -" old " +" new " @@" and the rest, old and new free of spaces
DrawnHeader ==
    /\ Len(input) >= 3
    /\ FirstSpaces # {}
    /\ Terminators # {}
    /\ FirstSpace + 1 < Terminator
    /\ HeaderText = <<"@", "@", SPACE, "-">> \o OldText \o <<SPACE, "+">> \o NewText
                        \o <<SPACE, "@", "@">> \o AfterTerminator
    /\ \A i \in 1..Len(NewText) : NewText[i] # SPACE

IsNumeral(u) == u # <<>> /\ \A i \in 1..Len(u) : u[i] \in Digits

RECURSIVE Decimal(_)
Decimal(u) == IF u = <<>> THEN 0 ELSE Decimal(SubSeq(u, 1, Len(u) - 1)) * 10 + DigitValue(u[Len(u)])

Commas(t) == {i \in 1..Len(t) : t[i] = ","}

\* t reads start[,len], both unsigned numerals
ValidRange(t) ==
    \/ IsNumeral(t)
    \/ \E i \in Commas(t) : IsNumeral(SubSeq(t, 1, i - 1)) /\ IsNumeral(SubSeq(t, i + 1, Len(t)))

RangeOf(t) ==
    IF Commas(t) = {} THEN [start |-> Decimal(t), len |-> 1]
    ELSE LET i == CHOOSE k \in Commas(t) : TRUE
         IN  [start |-> Decimal(SubSeq(t, 1, i - 1)),
              len |-> Decimal(SubSeq(t, i + 1, Len(t)))]

HeaderErrors == {E_HUNK_HEADER, E_HEADER_UNTERMINATED, E_RANGE}

\* C7: each range text reads start[,len]; with a comma the range is
\* {start, len}, without one {start, len: 1}; a numeral that is no unsigned
\* integer fails the parse with "can't parse range".
C7_Ranges ==
    (pos >= 3 /\ DrawnHeader) =>
        IF ValidRange(OldText) /\ ValidRange(NewText)
        THEN /\ ~(pc = "err" /\ err \in HeaderErrors)
             /\ range1 = RangeOf(OldText)
             /\ range2 = RangeOf(NewText)
        ELSE pc = "err" /\ err = E_RANGE

\* "@@ -1 +1 @@" gives {start: 1, len: 1} twice
C7_Witness ==
    /\ pc = "done"
    /\ HeaderText = HeaderLine(<<"1">>, <<"1">>, <<>>)
    /\ hunks[1].old_range = [start |-> 1, len |-> 1]
    /\ hunks[1].new_range = [start |-> 1, len |-> 1]

HeaderReturned ==
    /\ pos >= 3
    /\ DrawnHeader
    /\ ValidRange(OldText)
    /\ ValidRange(NewText)

\* C8 as amended: the function context is the text after the first " @@" to
\* the end of the line (its newline included) without its leading space, and
\* it is present exactly when that text starts with a space; text that follows
\* the terminator without a leading space is dropped.
C8_FunctionContext ==
    HeaderReturned =>
        function_context =
            IF AfterTerminator # <<>> /\ AfterTerminator[1] = SPACE
            THEN Some(Tail(AfterTerminator))
            ELSE None

\* the text after the terminator up to the line end
TextAfter ==
    IF EndsWithNewline(AfterTerminator)
    THEN SubSeq(AfterTerminator, 1, Len(AfterTerminator) - 1)
    ELSE AfterTerminator

\* C8 as claimed: the context is the text after the terminator minus one
\* leading space if present (with or without the newline of the line), and it
\* is None exactly when no text follows the terminator.
C8_Original ==
    HeaderReturned =>
        /\ function_context = None <=> TextAfter = <<>>
        /\ TextAfter # <<>> =>
            LET text == IF TextAfter[1] = SPACE THEN Tail(TextAfter) ELSE TextAfter
            IN  function_context \in {Some(text), Some(text \o <<LF>>)}

C8_Witness ==
    /\ pc = "done"
    /\ DrawnHeader
    /\ AfterTerminator = <<SPACE, "f", LF>>
    /\ hunks[1].function_context = Some(<<"f", LF>>)

---------------------------------------------------------------------------
(* C10 *)

C10_Step ==
    /\ input' = input
    /\ pos' \in {pos, pos + 1}
    /\ pos' <= Len(input)
    /\ (pc = "preamble" /\ pc' = "preamble") => pos' = pos + 1
    /\ (pc = "hunks" /\ pc' \notin {"done", "err"}) => pos' = pos + 1
    /\ (pc = "hunk_lines" /\ pc' = "hunk_lines") =>
        (pos' = pos + 1 /\ lines' # <<>> /\ lines'[Len(lines')].at \in {pos, pos + 1})
    /\ (pc = "hunk_lines" /\ pc' = "err") => (pos' = pos /\ HasLine)
    /\ (pc = "hunk_lines" /\ pc' = "hunk_check") => (pos' = pos /\ lines' = lines)
    /\ Returned => Returned'

\* C10: parse returns on every input; every iteration of the preamble loop,
\* the hunks loop and the hunk-body loop stops or consumes one line, the cursor
\* never moves backwards, and the body loop consumes a line only after it has
\* classified it (a line that causes an error is still unconsumed).
C10_Terminates == <>Returned /\ [][C10_Step]_vars

C10_Witness ==
    /\ pc = "err"
    /\ err = E_UNEXPECTED_LINE
    /\ pos = 4
    /\ Peek = OTHER_LINE
    /\ lines = <<Line("Delete", <<"d", LF>>, 4)>>

===========================================================================
